---- MODULE Spec2Model ----
(***************************************************************************)
(* TradeBot: the LLM decision client (OpenAISimpleHandler), the response   *)
(* parser (ResponseParser) and the orchestrator loop (TradingBot).         *)
(*                                                                         *)
(* Spec        the decision client called by concurrent callers            *)
(* FairSpec    Spec with the calls and sleeps ending                       *)
(* BotSpec     one TradingBot driving the client, the parser and the API   *)
(* RunSpec     BotSpec with fewer inputs and the steps of run taken        *)
(* ParserSpec  the parser applied to one reply text                        *)
(* ClientSpec  the trading API client called for its operations            *)
(* WaitSpec    one call of OpenAIHandler.wait_for_completion               *)
(*                                                                         *)
(* Time is kept as ages (seconds since an instant, saturated at the only   *)
(* threshold the code compares them with) and as the seconds a sleeper     *)
(* still has to wait.  A reply text is a record: its kind (a bare JSON     *)
(* object, a JSON object in a ```json fence, text that is no JSON, the     *)
(* empty text) and the decoded object, a function from the keys present.   *)
(***************************************************************************)
EXTENDS Integers, Sequences, FiniteSets, TLC

VARIABLES
    conversation_history,      \* OpenAISimpleHandler.conversation_history
    last_successful_response,  \* OpenAISimpleHandler.last_successful_response
    retry_count,               \* OpenAISimpleHandler.retry_count
    request_in_progress,       \* OpenAISimpleHandler._request_in_progress
    last_request_age,          \* time.time() - _last_request_timestamp, saturated
    pc,                        \* per caller: where its handler call stands
    call,                      \* per caller: the locals of its call
    sleep_left,                \* per caller: seconds left of asyncio.sleep
    last_return,               \* what the most recent handler call returned
    is_initialized,            \* TradingBot.is_initialized
    is_running,                \* TradingBot.is_running
    api_client,                \* TradingBot.api_client: none, open, closed
    telegram_notifier,         \* TradingBot.telegram_notifier: none, open, closed
    orders_check_age,          \* time.time() - last_orders_check, saturated
    review_age,                \* time since an order review last passed its gate
    bot_pc,                    \* where initialize() / run() stands
    bot_phase,                 \* send_initial_data ("initial") or the loop ("cycle")
    market_data,               \* the snapshot of the cycle: its USDT balance
    decision,                  \* the decision parse_and_validate returned
    bot_sleep_left,            \* seconds left of the loop's asyncio.sleep
    cycle_log,                 \* what the current cycle has done so far
    iterations,                \* loop iterations started
    caught_before,             \* an earlier trading cycle of the loop raised
    stop_requested,            \* stop() has been called
    reply_acted,               \* order calls made for the latest upstream reply
    response_text,             \* ResponseParser: the text given to the parser
    parsed,                    \* what parse_response gave for it
    is_valid,                  \* what validate_decision gave for parsed
    validated,                 \* what parse_and_validate gave for it
    http_requests,             \* TradingAPIClient: the HTTP requests issued
    client_results,            \* what each call of the client gave its caller
    demo_mode,                 \* TradingAPIClient.demo_mode
    thread_id,                 \* OpenAIHandler.thread_id
    max_wait_time,             \* wait_for_completion: its argument
    wait_time,                 \* wait_for_completion: its local wait_time
    polls,                     \* runs.retrieve calls of the current wait
    run_status,                \* what the latest of them observed
    wait_pc,                   \* where wait_for_completion stands
    wait_result                \* what wait_for_completion returned

hvars == <<conversation_history, last_successful_response, retry_count,
           request_in_progress, pc, call, last_return>>

reviewclock == <<orders_check_age, review_age>>

tvars == <<last_request_age, sleep_left, bot_sleep_left, reviewclock>>

bvars == <<is_initialized, is_running, api_client, telegram_notifier, bot_pc,
           bot_phase, market_data, decision, cycle_log, iterations,
           caught_before, stop_requested,
           reply_acted>>

pvars == <<response_text, parsed, is_valid, validated>>

cvars == <<http_requests, client_results, demo_mode>>

wvars == <<thread_id, max_wait_time, wait_time, polls, run_status, wait_pc,
           wait_result>>

\* the parser, the API client and the assistant handler taken alone
unitvars == <<pvars, cvars, wvars>>

vars == <<hvars, tvars, bvars, unitvars>>

-----------------------------------------------------------------------------
(* Program constants *)

max_retries == 3
retry_delay == 300
min_request_interval == 5
history_limit == 10
orders_check_interval == 600
update_interval == 300
min_trade == 10
reserve_needed == 35

(* Bounds of the model *)

MaxHistory == 12
MaxRetryCount == 4

Callers == {"t1", "t2"}

-----------------------------------------------------------------------------
(* Reply texts *)

EmptyObj == [k \in {} |-> ""]

Obj(o) == [kind |-> "object", obj |-> o]

NoResponse == [kind |-> "none", obj |-> EmptyObj]
EmptyText == [kind |-> "empty", obj |-> EmptyObj]
GarbageText == [kind |-> "garbage", obj |-> EmptyObj]

PauseReply == Obj("status" :> "pause" @@ "response" :> "wait")
UpperBuyReply ==
    Obj("status" :> "BUY" @@ "response" :> "up" @@ "buy_amount" :> 10
        @@ "take_profit_percent" :> 5 @@ "stop_loss_percent" :> 2)
StrategyReply == Obj("status" :> "strategy" @@ "response" :> "plan")
FencedPauseReply == [kind |-> "fenced", obj |-> PauseReply.obj]

HandlerReplies == {UpperBuyReply, StrategyReply, EmptyText}

\* str.lower() on the status texts of the model
Lower(s) ==
    CASE s = "BUY" -> "buy"
      [] s = "Pause" -> "pause"
      [] s = "SELL" -> "sell"
      [] OTHER -> s

valid_statuses == {"pause", "buy", "sell", "cancel"}

\* json.loads(response.strip()) succeeds and yields a dict
LoadsDict(r) == r.kind = "object"

IsValidResponse(r) ==
    /\ LoadsDict(r)
    /\ "status" \in DOMAIN r.obj
    /\ Lower(r.obj["status"]) \in valid_statuses

\* Python truth value of Optional[str]
Truthy(r) == r.kind \notin {"none", "empty"}

ThrottlePause == Obj("status" :> "pause" @@ "response" :> "too_frequent")
InFlightPause == Obj("status" :> "pause" @@ "response" :> "still_processing")
OrdersErrorPause == Obj("status" :> "pause" @@ "response" :> "orders_check_error")

RegionWaitText(n) ==
    CASE n = 1 -> "region_wait_1_of_3"
      [] n = 2 -> "region_wait_2_of_3"
      [] n = 3 -> "region_wait_3_of_3"
      [] OTHER -> "region_wait"

RegionPause(n) == Obj("status" :> "pause" @@ "response" :> RegionWaitText(n))

SynthesizedPauses ==
    {ThrottlePause, InFlightPause} \cup {RegionPause(n) : n \in 1..max_retries}

-----------------------------------------------------------------------------
(* Outcomes of one upstream completion call *)

Reply(r) == [kind |-> "reply", text |-> r]
RegionDenied == [kind |-> "region_denied", text |-> NoResponse]
PermissionDenied == [kind |-> "permission_denied", text |-> NoResponse]
UpstreamError == [kind |-> "error", text |-> NoResponse]

Failures == {RegionDenied, PermissionDenied, UpstreamError}

Outcomes(replies) == {Reply(r) : r \in replies} \cup Failures

-----------------------------------------------------------------------------
(* OpenAISimpleHandler *)

\* cleared: the retry_count a successful call found and reset
IdleCall == [initial |-> FALSE, upstream |-> 0, followups |-> 0,
             fallback |-> NoResponse, cleared |-> 0]

NoReturn ==
    [kind |-> "none", value |-> NoResponse, upstream |-> 0, cleared |-> 0]

\* how a call ended (kind), the text it returned, the completion calls it
\* made, the retry_count it reset
Returned(kind, value, c) ==
    [kind |-> kind, value |-> value, upstream |-> c.upstream,
     cleared |-> c.cleared]

HandlerInit ==
    /\ conversation_history = << >>
    /\ last_successful_response = NoResponse
    /\ retry_count = 0
    /\ request_in_progress = FALSE
    /\ last_request_age = min_request_interval
    /\ pc = [t \in Callers |-> "idle"]
    /\ call = [t \in Callers |-> IdleCall]
    /\ sleep_left = [t \in Callers |-> 0]
    /\ last_return = NoReturn

\* one entry of the history: its role and content are only sent upstream
Turn == "turn"

\* conversation_history[-10:] when longer than 10
Trim(h) ==
    IF Len(h) > history_limit
    THEN SubSeq(h, Len(h) - history_limit + 1, Len(h))
    ELSE h

TooSoonNever(is_initial) == FALSE

\* not is_initial and (current_time - _last_request_timestamp) < _min_request_interval
TooSoon(is_initial) ==
    ~is_initial /\ last_request_age < min_request_interval

AlreadyRunningNever == FALSE

\* if self._request_in_progress
AlreadyRunning == request_in_progress

\* the substitute a rejected call returns
Substitute(pause) ==
    IF Truthy(last_successful_response) THEN last_successful_response ELSE pause

RejectStamping(kind, pause, c) ==
    /\ last_return' = Returned(kind, Substitute(pause), c)
    /\ last_request_age' = 0
    /\ UNCHANGED <<conversation_history, last_successful_response,
                   retry_count, request_in_progress, pc, call, sleep_left>>

\* a rejected call: the return inside the lock, before the try block and
\* its finally clause
Reject(kind, pause, c) ==
    /\ last_return' = Returned(kind, Substitute(pause), c)
    /\ UNCHANGED <<conversation_history, last_successful_response,
                   retry_count, request_in_progress,
                   last_request_age, pc, call, sleep_left>>

\* get_trading_decision, the section under _request_lock
GTD_Enter(t, is_initial) ==
    /\ pc[t] = "idle"
    /\ LET c == [IdleCall EXCEPT !.initial = is_initial] IN
       IF TooSoon(is_initial)
       THEN Reject("throttled", ThrottlePause, c)
       ELSE IF AlreadyRunning
       THEN Reject("in_flight", InFlightPause, c)
       ELSE /\ Len(conversation_history) + 3 <= MaxHistory
            /\ request_in_progress' = TRUE
            /\ last_request_age' = 0
            /\ pc' = [pc EXCEPT ![t] = "request"]
            /\ call' = [call EXCEPT ![t] = c]
            /\ UNCHANGED <<conversation_history, last_successful_response,
                           retry_count, sleep_left, last_return>>

ReleaseKeepingFlag(t, kind, value, c) ==
    /\ request_in_progress' = request_in_progress
    /\ pc' = [pc EXCEPT ![t] = "idle"]
    /\ call' = [call EXCEPT ![t] = IdleCall]
    /\ last_return' = Returned(kind, value, c)

\* the finally clause, with the call returning or raising
Release(t, kind, value, c) ==
    /\ request_in_progress' = FALSE
    /\ pc' = [pc EXCEPT ![t] = "idle"]
    /\ call' = [call EXCEPT ![t] = IdleCall]
    /\ last_return' = Returned(kind, value, c)

SucceedKeepingRetryCount(t, h, r, c) ==
    /\ last_successful_response' = r
    /\ retry_count' = retry_count
    /\ conversation_history' = Trim(Append(h, Turn))
    /\ Release(t, "reply", r, [c EXCEPT !.cleared = retry_count])
    /\ UNCHANGED <<last_request_age, sleep_left>>

\* lines 453-468: record the reply and return it
Succeed(t, h, r, c) ==
    /\ last_successful_response' = r
    /\ retry_count' = 0
    /\ conversation_history' = Trim(Append(h, Turn))
    /\ Release(t, "reply", r, [c EXCEPT !.cleared = retry_count])
    /\ UNCHANGED <<last_request_age, sleep_left>>

RetriesExhaustedOneLate(n) == n > max_retries + 1

\* if self.retry_count > self.max_retries
RetriesExhausted(n) == n > max_retries

\* the except clauses, with _handle_region_error
Fail(t, h, o, c) ==
    /\ conversation_history' = h
    /\ UNCHANGED <<last_successful_response, last_request_age>>
    /\ IF o.kind = "region_denied"
       THEN /\ retry_count < MaxRetryCount
            /\ retry_count' = retry_count + 1
            /\ IF RetriesExhausted(retry_count + 1)
               THEN /\ Release(t, "raised", NoResponse, c)
                    /\ UNCHANGED sleep_left
               ELSE /\ pc' = [pc EXCEPT ![t] = "sleeping"]
                    /\ call' = [call EXCEPT ![t] =
                                  [c EXCEPT !.fallback =
                                     Substitute(RegionPause(retry_count + 1))]]
                    /\ sleep_left' = [sleep_left EXCEPT ![t] = retry_delay]
                    /\ UNCHANGED <<request_in_progress, last_return>>
       ELSE /\ Release(t, "raised", NoResponse, c)
            /\ UNCHANGED <<retry_count, sleep_left>>

NeedsCorrectionNever(r) == FALSE

\* if not self._is_valid_response(assistant_response)
NeedsCorrection(r) == ~IsValidResponse(r)

\* lines 389-451: the user turn and the first completion call
GTD_Request(t, o) ==
    /\ pc[t] = "request"
    /\ LET h == Append(conversation_history, Turn)
           c == [call[t] EXCEPT !.upstream = 1]
       IN IF o.kind = "reply"
          THEN IF NeedsCorrection(o.text)
               THEN /\ conversation_history' = Append(h, Turn)
                    /\ pc' = [pc EXCEPT ![t] = "retry"]
                    /\ call' = [call EXCEPT ![t] = c]
                    /\ UNCHANGED <<last_successful_response, retry_count,
                                   request_in_progress, last_request_age,
                                   sleep_left, last_return>>
               ELSE Succeed(t, h, o.text, c)
          ELSE Fail(t, h, o, c)

\* lines 443-451: the corrective follow-up, whose reply is not checked
GTD_Retry(t, o) ==
    /\ pc[t] = "retry"
    /\ LET c == [call[t] EXCEPT !.upstream = 2, !.followups = 1]
       IN IF o.kind = "reply"
          THEN Succeed(t, conversation_history, o.text, c)
          ELSE Fail(t, conversation_history, o, c)

GTD_WakeEarly(t) ==
    /\ pc[t] = "sleeping"
    /\ Release(t, "fallback", call[t].fallback, call[t])
    /\ UNCHANGED <<conversation_history, last_successful_response,
                   retry_count, last_request_age, sleep_left>>

\* _wait_and_retry has slept; the fallback is returned
GTD_Wake(t) ==
    /\ pc[t] = "sleeping"
    /\ sleep_left[t] = 0
    /\ Release(t, "fallback", call[t].fallback, call[t])
    /\ UNCHANGED <<conversation_history, last_successful_response,
                   retry_count, last_request_age, sleep_left>>

\* check_orders_decision
CheckOrdersDecision(t, o) ==
    /\ pc[t] = "idle"
    /\ Len(conversation_history) + 2 <= MaxHistory
    /\ LET h == Append(conversation_history, Turn)
           c == [IdleCall EXCEPT !.upstream = 1]
       IN IF o.kind = "reply"
          THEN /\ conversation_history' = Trim(Append(h, Turn))
               /\ last_return' = Returned("orders_reply", o.text, c)
          ELSE /\ conversation_history' = h
               /\ last_return' = Returned("error_pause",
                                          OrdersErrorPause, c)
    /\ UNCHANGED <<last_successful_response, retry_count,
                   request_in_progress, last_request_age, pc, call,
                   sleep_left>>

\* reset_retry_state
ResetRetryState ==
    /\ retry_count' = 0
    /\ UNCHANGED <<conversation_history, last_successful_response,
                   request_in_progress, last_request_age, pc, call,
                   sleep_left, last_return>>

-----------------------------------------------------------------------------
(* The clock *)

Min(a, b) == IF a < b THEN a ELSE b
Max(a, b) == IF a > b THEN a ELSE b

Sleeping == bot_sleep_left > 0 \/ \E t \in Callers : sleep_left[t] > 0

\* d seconds pass
Advance(d) ==
    /\ last_request_age' = Min(last_request_age + d, min_request_interval)
    /\ orders_check_age' = Min(orders_check_age + d, orders_check_interval)
    /\ review_age' = Min(review_age + d, orders_check_interval)
    /\ sleep_left' = [t \in Callers |-> Max(sleep_left[t] - d, 0)]
    /\ bot_sleep_left' = Max(bot_sleep_left - d, 0)

\* the minimum request interval passes
TickInterval ==
    /\ last_request_age < min_request_interval
    /\ Advance(min_request_interval)
    /\ UNCHANGED <<hvars, bvars, unitvars>>

\* the retry delay passes
TickDelay ==
    /\ Sleeping
    /\ Advance(retry_delay)
    /\ UNCHANGED <<hvars, bvars, unitvars>>

-----------------------------------------------------------------------------
(* ResponseParser *)

\* clean_json_response, then json.loads: the fences are stripped and the
\* text from the first { to the last } is decoded
Decodes(r) == r.kind \in {"object", "fenced"}

Has(r, k) == k \in DOMAIN r.obj

NoDecision ==
    [status |-> "none", corrected_from |-> "", response |-> "",
     buy_amount |-> 0, take_profit_percent |-> 0, stop_loss_percent |-> 0,
     sell_amount |-> 0, order_id |-> ""]

\* ResponseParseError
ParseError == [NoDecision EXCEPT !.status = "error"]

\* an exception other than ResponseParseError inside parse_response
Unexpected == [NoDecision EXCEPT !.status = "exception"]

\* the JSON value null in the place of a status: no str, it has no lower()
JsonNull == "<null>"

IsString(v) == v # JsonNull

\* a created_at text pydantic can read as a datetime
IsDateTime(v) == v = "2024-01-01T00:00:00"

\* BaseModel: id, created_at and updated_at are fields of every decision
\* and are validated when the input object carries them
BaseRejected(r) == Has(r, "created_at") /\ ~IsDateTime(r.obj["created_at"])

\* the fields a variant asks for beyond status and response
RequiredFields(status) ==
    CASE status = "buy" ->
            {"buy_amount", "take_profit_percent", "stop_loss_percent"}
      [] status = "sell" -> {"sell_amount"}
      [] status = "cancel" -> {"order_id"}
      [] OTHER -> {}

\* Field(..., gt=0) on the fields of the variant that are present
FieldsRejected(r, status) ==
    \E k \in RequiredFields(status) \ {"order_id"} :
        Has(r, k) /\ r.obj[k] <= 0

\* the try block of parse_response: a decision, ParseError where it raises
\* ResponseParseError, Unexpected where something else is raised
ParseBody(r) ==
    IF ~Decodes(r) \/ ~Has(r, "status") \/ ~Has(r, "response")
    THEN ParseError
    ELSE IF ~IsString(r.obj["status"])
    THEN Unexpected
    ELSE LET given == r.obj["status"]
             corrected == Lower(given) \notin valid_statuses
             status == IF corrected THEN "pause" ELSE Lower(given)
             \* data['status']: rewritten by a correction only
             data_status == IF corrected THEN "pause" ELSE given
             base == [NoDecision EXCEPT
                        !.status = status,
                        !.response = r.obj["response"],
                        !.corrected_from = IF corrected THEN given ELSE ""]
         IN IF RequiredFields(status) \ DOMAIN r.obj # {}
            THEN ParseError
            \* the model class: Literal status, base fields, gt=0
            ELSE IF \/ data_status # status
                    \/ BaseRejected(r)
                    \/ FieldsRejected(r, status)
            THEN Unexpected
            ELSE [k \in DOMAIN base |->
                    IF k \in RequiredFields(status) THEN r.obj[k]
                    ELSE base[k]]

ParseResponsePausing(r) ==
    IF ParseBody(r) \in {ParseError, Unexpected}
    THEN [NoDecision EXCEPT !.status = "pause"]
    ELSE ParseBody(r)

\* parse_response: ResponseParseError is re-raised and every other exception
\* is raised again as ResponseParseError
ParseResponse(r) ==
    IF ParseBody(r) \in {ParseError, Unexpected}
    THEN ParseError
    ELSE ParseBody(r)

\* str.strip() on the order ids of the model
Strip(s) == IF s = "  " THEN "" ELSE s

ValidateDecisionAnyOrder(d) ==
    CASE d.status = "buy" ->
            /\ d.buy_amount > 0
            /\ d.take_profit_percent > 0 /\ d.take_profit_percent <= 100
            /\ d.stop_loss_percent > 0 /\ d.stop_loss_percent <= 100
      [] d.status = "sell" -> d.sell_amount > 0
      [] d.status = "cancel" -> d.order_id # "" /\ Strip(d.order_id) # ""
      [] OTHER -> TRUE

\* validate_decision
ValidateDecision(d) ==
    CASE d.status = "buy" ->
            /\ d.buy_amount > 0
            /\ d.take_profit_percent > 0 /\ d.take_profit_percent <= 100
            /\ d.stop_loss_percent > 0 /\ d.stop_loss_percent <= 100
            /\ d.take_profit_percent > d.stop_loss_percent
      [] d.status = "sell" -> d.sell_amount > 0
      [] d.status = "cancel" -> d.order_id # "" /\ Strip(d.order_id) # ""
      [] OTHER -> TRUE

ParseAndValidateUnchecked(r) == ParseResponse(r)

\* parse_and_validate
ParseAndValidate(r) ==
    LET d == ParseResponse(r)
    IN IF d = ParseError THEN ParseError
       ELSE IF ~ValidateDecision(d) THEN ParseError
       ELSE d

\* the parser taken alone: the replies it is given

Absent == "<absent>"
AbsentNumber == -1

\* the object with the keys whose value is not the absent mark
JsonObject(st, rs, ba, tp, sl, sa, oid, extra) ==
    LET full == "status" :> st @@ "response" :> rs @@ "buy_amount" :> ba
                  @@ "take_profit_percent" :> tp @@ "stop_loss_percent" :> sl
                  @@ "sell_amount" :> sa @@ "order_id" :> oid
                  @@ "note" :> "x" @@ "created_at" :> "soon"
        present ==
            {k \in {"status"} : st # Absent}
              \cup {k \in {"response"} : rs # Absent}
              \cup {k \in {"buy_amount"} : ba # AbsentNumber}
              \cup {k \in {"take_profit_percent"} : tp # AbsentNumber}
              \cup {k \in {"stop_loss_percent"} : sl # AbsentNumber}
              \cup {k \in {"sell_amount"} : sa # AbsentNumber}
              \cup {k \in {"order_id"} : oid # Absent}
              \cup {k \in {"note", "created_at"} : k = extra}
    IN Obj([k \in present |-> full[k]])

ParserStatuses ==
    {Absent, "pause", "buy", "sell", "cancel", "BUY", "strategy", JsonNull}

ParserObjects ==
    {JsonObject(st, rs, ba, tp, sl, sa, oid, extra) :
        st \in ParserStatuses, rs \in {Absent, "up"},
        ba \in {AbsentNumber, 0, 10}, tp \in {AbsentNumber, 5, 150},
        sl \in {AbsentNumber, 2, 5}, sa \in {AbsentNumber, 2},
        oid \in {Absent, "o1", "  "},
        extra \in {"none", "note", "created_at"}}

ParserInputs == ParserObjects \cup {FencedPauseReply, GarbageText, EmptyText}

ParserIdle ==
    /\ parsed = NoDecision
    /\ is_valid = "not_called"
    /\ validated = NoDecision

\* parse_response is called on the text
ParseResponseCall ==
    /\ parsed = NoDecision
    /\ parsed' = ParseResponse(response_text)
    /\ UNCHANGED <<hvars, tvars, bvars, response_text, is_valid, validated,
                   cvars, wvars>>

\* validate_decision is called on the decision parse_response returned
ValidateDecisionCall ==
    /\ parsed \notin {NoDecision, ParseError}
    /\ is_valid = "not_called"
    /\ is_valid' = IF ValidateDecision(parsed) THEN "true" ELSE "false"
    /\ UNCHANGED <<hvars, tvars, bvars, response_text, parsed, validated,
                   cvars, wvars>>

\* parse_and_validate is called on the text
ParseAndValidateCall ==
    /\ validated = NoDecision
    /\ validated' = ParseAndValidate(response_text)
    /\ UNCHANGED <<hvars, tvars, bvars, response_text, parsed, is_valid,
                   cvars, wvars>>

-----------------------------------------------------------------------------
(* TradingBot *)

MaxIterations == 2

BotCaller == "t1"

\* USDT balances a snapshot may report, and amounts a Buy reply may ask for
Balances == {10, 46}
BuyAmounts == {5, 10, 11, 12}

BuyReply(a) ==
    Obj("status" :> "buy" @@ "response" :> "up" @@ "buy_amount" :> a
        @@ "take_profit_percent" :> 5 @@ "stop_loss_percent" :> 2)
InvertedBuyReply ==
    Obj("status" :> "buy" @@ "response" :> "up" @@ "buy_amount" :> 10
        @@ "take_profit_percent" :> 2 @@ "stop_loss_percent" :> 5)
SellReply ==
    Obj("status" :> "sell" @@ "response" :> "down" @@ "sell_amount" :> 2)
CancelReply ==
    Obj("status" :> "cancel" @@ "response" :> "stale" @@ "order_id" :> "o1")

BotReplies ==
    {BuyReply(a) : a \in BuyAmounts}
        \cup {FencedPauseReply, InvertedBuyReply, SellReply, CancelReply,
              StrategyReply, GarbageText}

NoSnapshot == -1

Ev(ev, amount) == [ev |-> ev, amount |-> amount]

OrderEvents == {"place_buy_order", "place_sell_order", "cancel_order"}
StepFailures == {"snapshot_failed", "llm_failed", "parse_failed"}
CycleFailures == StepFailures \cup {"order_failed"}
FailureEvents == CycleFailures \cup {"orders_failed"}

Logged(log, kinds) == {i \in DOMAIN log : log[i].ev \in kinds}

BotInit ==
    /\ is_initialized = FALSE
    /\ is_running = FALSE
    /\ api_client = "none"
    /\ telegram_notifier = "none"
    /\ orders_check_age = orders_check_interval
    /\ review_age = orders_check_interval
    /\ bot_pc = "new"
    /\ bot_phase = "none"
    /\ market_data = NoSnapshot
    /\ decision = NoDecision
    /\ bot_sleep_left = 0
    /\ cycle_log = << >>
    /\ iterations = 0
    /\ caught_before = FALSE
    /\ stop_requested = FALSE
    /\ reply_acted = "no"

Closed(c) == IF c = "none" THEN "none" ELSE "closed"

\* how a close() call ends: it returns, or it raises
CloseResults == {"closed", "close_failed"}

\* cleanup: one try block around both close() calls, so that the second
\* is skipped when the first raises
Cleanup ==
    \E result \in CloseResults :
        /\ api_client' = IF api_client = "none" THEN "none" ELSE result
        /\ telegram_notifier' =
              IF api_client # "none" /\ result = "close_failed"
              THEN telegram_notifier
              ELSE Closed(telegram_notifier)

\* the step of initialize that raises, if one does: the TradingAPIClient
\* constructor, test_connection returning False, the OpenAISimpleHandler
\* constructor or initialize, the TelegramNotifier constructor
InitFailures ==
    {"none", "api_client", "test_connection", "openai_handler",
     "telegram_notifier"}

\* what initialize has done when it ends, in the order of its statements
InitializeSteps(failed, notifier_ok) ==
    CASE failed = "api_client" -> << >>
      [] failed = "test_connection" ->
            <<Ev("api_client_created", 0), Ev("connection_error", 0)>>
      [] failed = "openai_handler" ->
            <<Ev("api_client_created", 0), Ev("api_connected", 0)>>
      [] failed = "telegram_notifier" ->
            <<Ev("api_client_created", 0), Ev("api_connected", 0),
              Ev("openai_handler_created", 0)>>
      [] OTHER ->
            <<Ev("api_client_created", 0), Ev("api_connected", 0),
              Ev("openai_handler_created", 0), Ev("notifier_created", 0),
              Ev(IF notifier_ok THEN "notifier_connected"
                 ELSE "notifier_warning", 0)>>

InitializeFlagFirst(failed, notifier_ok) ==
    /\ bot_pc = "new"
    /\ is_initialized' = TRUE
    /\ cycle_log' = InitializeSteps(failed, notifier_ok)
    /\ api_client' = IF failed = "none" THEN "open"
                     ELSE IF failed = "api_client" THEN "none" ELSE "closed"
    /\ telegram_notifier' = IF failed = "none" THEN "open" ELSE "none"
    /\ bot_pc' = IF failed = "none" THEN "initialized" ELSE "init_failed"
    /\ UNCHANGED <<unitvars,
                   hvars, tvars, is_running, bot_phase, market_data,
                   decision, iterations, caught_before, stop_requested,
                   reply_acted>>

InitializeNotifierFatal(failed, notifier_ok) ==
    /\ bot_pc = "new"
    /\ cycle_log' = InitializeSteps(failed, notifier_ok)
    /\ IF failed = "none" /\ notifier_ok
       THEN /\ api_client' = "open"
            /\ telegram_notifier' = "open"
            /\ is_initialized' = TRUE
            /\ bot_pc' = "initialized"
       ELSE /\ api_client' = IF failed = "api_client" THEN "none" ELSE "closed"
            /\ telegram_notifier' = IF failed = "none" THEN "closed" ELSE "none"
            /\ is_initialized' = FALSE
            /\ bot_pc' = "init_failed"
    /\ UNCHANGED <<unitvars,
                   hvars, tvars, is_running, bot_phase, market_data,
                   decision, iterations, caught_before, stop_requested,
                   reply_acted>>

\* initialize: a False from the notifier's test_connection is only logged
Initialize(failed, notifier_ok) ==
    /\ bot_pc = "new"
    /\ cycle_log' = InitializeSteps(failed, notifier_ok)
    /\ IF failed = "none"
       THEN /\ api_client' = "open"
            /\ telegram_notifier' = "open"
            /\ is_initialized' = TRUE
            /\ bot_pc' = "initialized"
       ELSE \* the except clause: cleanup closes what was created
            /\ \E result \in CloseResults :
                  api_client' =
                     IF failed = "api_client" THEN "none" ELSE result
            /\ telegram_notifier' = "none"
            /\ is_initialized' = FALSE
            /\ bot_pc' = "init_failed"
    /\ UNCHANGED <<unitvars,
                   hvars, tvars, is_running, bot_phase, market_data,
                   decision, iterations, caught_before, stop_requested,
                   reply_acted>>

RunStartUnchecked ==
    /\ bot_pc \in {"new", "init_failed", "initialized"}
    /\ is_running' = TRUE
    /\ bot_phase' = "initial"
    /\ bot_pc' = "fetch"
    /\ cycle_log' = << >>
    /\ UNCHANGED <<unitvars,
                   hvars, tvars, is_initialized, api_client,
                   telegram_notifier, market_data, decision,
                   iterations, caught_before, stop_requested,
                   reply_acted>>

\* run, up to the call of send_initial_data: RuntimeError when initialize
\* was not called or has failed
RunStart ==
    /\ bot_pc \in {"new", "init_failed", "initialized"}
    /\ IF ~is_initialized
       THEN /\ bot_pc' = "not_initialized_error"
            /\ UNCHANGED <<is_running, bot_phase>>
       ELSE /\ is_running' = TRUE
            /\ bot_phase' = "initial"
            /\ bot_pc' = "fetch"
    /\ cycle_log' = << >>
    /\ UNCHANGED <<unitvars,
                   hvars, tvars, is_initialized, api_client,
                   telegram_notifier, market_data, decision,
                   iterations, caught_before, stop_requested,
                   reply_acted>>

\* an exception in the loop body would end run as one in send_initial_data does
RaiseOutOfRun(events) ==
    /\ cycle_log' = cycle_log \o events
    /\ decision' = NoDecision
    /\ bot_pc' = "run_failed"
    /\ is_running' = FALSE
    /\ Cleanup
    /\ UNCHANGED bot_sleep_left

\* an exception leaves the current step: send_initial_data re-raises it and
\* the finally clause of run runs; trading_cycle logs it and returns to the
\* loop, which sleeps
Raise(events) ==
    /\ cycle_log' = cycle_log \o events
    /\ decision' = NoDecision
    /\ IF bot_phase = "initial"
       THEN /\ bot_pc' = "run_failed"
            /\ is_running' = FALSE
            /\ Cleanup
            /\ UNCHANGED bot_sleep_left
       ELSE /\ bot_pc' = "sleeping"
            /\ bot_sleep_left' = update_interval
            /\ UNCHANGED <<is_running, api_client, telegram_notifier>>

\* the current step returns: run enters the loop, or the loop sleeps
Return(events) ==
    /\ cycle_log' = cycle_log \o events
    /\ decision' = NoDecision
    /\ IF bot_phase = "initial"
       THEN /\ bot_pc' = "loop"
            /\ UNCHANGED bot_sleep_left
       ELSE /\ bot_pc' = "sleeping"
            /\ bot_sleep_left' = update_interval
    /\ UNCHANGED <<is_running, api_client, telegram_notifier>>

\* a failed fetch would be followed by the request all the same
FetchSnapshotUnchecked(ok, usdt) ==
    /\ bot_pc = "fetch"
    /\ cycle_log' = cycle_log \o
                      <<Ev(IF ok THEN "snapshot" ELSE "snapshot_failed", 0)>>
    /\ market_data' = usdt
    /\ bot_pc' = "ask"
    /\ UNCHANGED <<unitvars,
                   hvars, tvars, is_initialized, is_running, api_client,
                   telegram_notifier, bot_phase, decision, iterations,
                   caught_before, stop_requested,
                   reply_acted>>

\* get_market_analytics (initial) / get_market_monitor (cycle)
FetchSnapshot(ok, usdt) ==
    /\ bot_pc = "fetch"
    /\ IF ok
       THEN /\ cycle_log' = cycle_log \o <<Ev("snapshot", 0)>>
            /\ market_data' = usdt
            /\ bot_pc' = "ask"
            /\ UNCHANGED <<is_running, api_client, telegram_notifier,
                           decision, bot_sleep_left>>
       ELSE /\ Raise(<<Ev("snapshot_failed", 0)>>)
            /\ UNCHANGED market_data
    /\ UNCHANGED <<unitvars,
                   hvars, last_request_age, sleep_left, reviewclock,
                   is_initialized, bot_phase, iterations, caught_before,
                   stop_requested,
                   reply_acted>>

\* openai_handler.send_initial_data / send_update_data is called
AskDecision ==
    /\ bot_pc = "ask"
    /\ GTD_Enter(BotCaller, bot_phase = "initial")
    /\ bot_pc' = "wait"
    /\ UNCHANGED <<unitvars,
                   bot_sleep_left, reviewclock, is_initialized,
                   is_running, api_client, telegram_notifier, bot_phase,
                   market_data, decision, cycle_log, iterations,
                   caught_before, stop_requested,
                   reply_acted>>

\* the call has ended: parse_and_validate on the text it returned
TakeDecision ==
    /\ bot_pc = "wait"
    /\ pc[BotCaller] = "idle"
    /\ last_return' = NoReturn
    \* a reply of the upstream call, or a substitute for one
    /\ reply_acted' = IF last_return.kind = "reply" THEN "no" ELSE reply_acted
    /\ IF last_return.kind = "raised"
       THEN Raise(<<Ev("llm_failed", 0)>>)
       ELSE LET d == ParseAndValidate(last_return.value)
            IN IF d = ParseError
               THEN Raise(<<Ev("reply", 0), Ev("parse_failed", 0)>>)
               ELSE /\ cycle_log' = cycle_log \o
                                      <<Ev("reply", 0), Ev("decision", d.buy_amount)>>
                    /\ decision' = d
                    /\ bot_pc' = "exec"
                    /\ UNCHANGED <<is_running, api_client, telegram_notifier,
                                   bot_sleep_left>>
    /\ UNCHANGED <<unitvars,
                   conversation_history, last_successful_response,
                   retry_count, request_in_progress, pc, call,
                   last_request_age, sleep_left, reviewclock,
                   is_initialized, bot_phase, market_data, iterations,
                   caught_before, stop_requested>>

GateRejectsNoReserve(d, balance) ==
    \/ d.buy_amount < min_trade
    \/ balance < d.buy_amount

GateRejectsNoFloor(d, balance) ==
    \/ balance < d.buy_amount
    \/ d.buy_amount > balance - reserve_needed

\* the three checks of execute_decision on a BuyDecision
GateRejects(d, balance) ==
    \/ d.buy_amount < min_trade
    \/ balance < d.buy_amount
    \/ d.buy_amount > balance - reserve_needed

OrderCallWrongBranch(d) ==
    CASE d.status = "buy" -> Ev("place_buy_order", d.buy_amount)
      [] d.status = "sell" -> Ev("cancel_order", d.order_id)
      [] d.status = "cancel" -> Ev("cancel_order", d.order_id)

\* the trading-API call execute_decision makes for a decision, with its
\* argument
OrderCall(d) ==
    CASE d.status = "buy" -> Ev("place_buy_order", d.buy_amount)
      [] d.status = "sell" -> Ev("place_sell_order", d.sell_amount)
      [] d.status = "cancel" -> Ev("cancel_order", d.order_id)

\* how a call of the Telegram API ends
NotifyOutcomes == {"sent", "http_error", "malformed", "exception"}

\* send_message: True when Telegram answers ok; an HTTP error, a body that
\* is no JSON object and every other exception are caught and give False
SendMessage(outcome) == outcome = "sent"

NotifyRaisesUncaught(outcome) == outcome = "exception"

\* an exception of a notify_* call reaches the statement after it: never,
\* send_message catches its own and every notify_* call of the orchestrator
\* is wrapped in try/except
NotifyRaises(outcome) == FALSE

\* a notify_* call, by what send_message returned
Notify(outcome) == <<Ev("notify", IF SendMessage(outcome) THEN 1 ELSE 0)>>

ExecuteEventsNotifyingAttempt(d, balance, ok, outcome) ==
    IF d.status = "pause"
    THEN <<Ev("pause", 0)>>
    ELSE IF d.status = "buy" /\ GateRejects(d, balance)
    THEN <<Ev("rejected", d.buy_amount)>>
    ELSE IF d.status = "buy"
    THEN <<OrderCall(d)>> \o Notify(outcome)
              \o (IF ~ok THEN <<Ev("order_failed", 0)>> ELSE << >>)
    ELSE IF ~ok
    THEN <<OrderCall(d), Ev("order_failed", 0)>>
    ELSE <<OrderCall(d)>>

\* execute_decision: what it does for a decision
ExecuteEvents(d, balance, ok, outcome) ==
    IF d.status = "pause"
    THEN <<Ev("pause", 0)>>
    ELSE IF d.status = "buy" /\ GateRejects(d, balance)
    THEN <<Ev("rejected", d.buy_amount)>>
    ELSE IF ~ok
    THEN <<OrderCall(d), Ev("order_failed", 0)>>
    ELSE IF d.status = "buy"
    THEN <<OrderCall(d)>> \o Notify(outcome)
              \o (IF NotifyRaises(outcome)
                  THEN <<Ev("order_failed", 0)>> ELSE << >>)
    ELSE <<OrderCall(d)>>

\* execute_decision re-raises what its try block raised
ExecuteRaises(d, balance, ok, outcome) ==
    Logged(ExecuteEvents(d, balance, ok, outcome), {"order_failed"}) # {}

\* execute_decision
ExecuteDecision(ok, outcome) ==
    /\ bot_pc = "exec"
    /\ reply_acted' =
          IF Logged(ExecuteEvents(decision, market_data, ok, outcome),
                    OrderEvents) = {}
          THEN reply_acted
          ELSE IF reply_acted = "no" THEN "once" ELSE "again"
    /\ IF ExecuteRaises(decision, market_data, ok, outcome)
       THEN Raise(ExecuteEvents(decision, market_data, ok, outcome))
       ELSE Return(ExecuteEvents(decision, market_data, ok, outcome))
    /\ UNCHANGED <<unitvars,
                   hvars, last_request_age, sleep_left, reviewclock,
                   is_initialized, bot_phase, market_data, iterations,
                   caught_before, stop_requested>>

\* run: the test of the while loop, and the finally clause when it fails
LoopTest ==
    /\ bot_pc = "loop"
    /\ IF is_running
       THEN /\ bot_pc' = "orders"
            /\ bot_phase' = "cycle"
            /\ cycle_log' = << >>
            /\ market_data' = NoSnapshot
            /\ iterations' = Min(iterations + 1, MaxIterations)
            /\ caught_before' =
                  (caught_before \/ Logged(cycle_log, CycleFailures) # {})
            /\ UNCHANGED <<is_running, api_client, telegram_notifier>>
       ELSE /\ bot_pc' = "stopped"
            /\ is_running' = FALSE
            /\ Cleanup
            /\ UNCHANGED <<bot_phase, cycle_log, market_data, iterations,
                           caught_before>>
    /\ UNCHANGED <<unitvars,
                   hvars, tvars, is_initialized, decision, stop_requested,
                   reply_acted>>

\* the order lists get_orders may return, by their length
OpenOrderCounts == 0..2

\* BTC balances the refreshed snapshot may report
BtcBalances == {0, 1}

SellAllReply == Obj("status" :> "sell" @@ "response" :> "all")

OrdersReplies ==
    {FencedPauseReply, CancelReply, SellReply, SellAllReply, BuyReply(10),
     GarbageText}

ReviewEvents == {"cancel_order_by_inst_id", "sell_all_btc", "review_sell"}

\* check_orders_cycle up to the request: the time gate, get_orders and
\* get_market_monitor
CheckOrdersCycle(ok, n) ==
    /\ bot_pc = "orders"
    /\ IF orders_check_age < orders_check_interval
       THEN /\ bot_pc' = "orders_done"
            /\ UNCHANGED <<cycle_log, review_age>>
       ELSE /\ review_age' = 0
            /\ IF ok
               THEN /\ cycle_log' = cycle_log \o
                         <<Ev("review_started", 0), Ev("get_orders", n)>>
                    /\ bot_pc' = "orders_ask"
               ELSE /\ cycle_log' = cycle_log \o
                         <<Ev("review_started", 0), Ev("orders_failed", 0)>>
                    /\ bot_pc' = "orders_done"
    /\ UNCHANGED <<unitvars,
                   hvars, last_request_age, sleep_left, bot_sleep_left,
                   orders_check_age, is_initialized, is_running, api_client,
                   telegram_notifier, bot_phase, market_data, decision,
                   iterations, caught_before, stop_requested,
                   reply_acted>>

\* openai_handler.check_orders_decision is called and returns
AskOrdersDecision(o) ==
    /\ bot_pc = "orders_ask"
    /\ CheckOrdersDecision(BotCaller, o)
    /\ bot_pc' = "orders_exec"
    /\ UNCHANGED <<unitvars,
                   bot_sleep_left, reviewclock, is_initialized, is_running,
                   api_client, telegram_notifier, bot_phase, market_data,
                   decision, cycle_log, iterations, caught_before,
                   stop_requested,
                   reply_acted>>

\* parse_orders_decision: the closed status set of the order review is
\* pause, cancel, sell; a reply outside it is refused (strict) or parsed as a
\* trading decision
ParseOrdersDecision(r, strict) ==
    IF ~Decodes(r) \/ ~Has(r, "status") \/ ~Has(r, "response")
    THEN ParseError
    ELSE LET status == Lower(r.obj["status"])
             base == [NoDecision EXCEPT !.response = r.obj["response"]]
         IN IF status = "pause"
            THEN [base EXCEPT !.status = "pause"]
            ELSE IF status = "cancel"
            THEN IF Has(r, "order_id")
                 THEN [base EXCEPT !.status = "orders_cancel",
                                   !.order_id = r.obj["order_id"]]
                 ELSE ParseError
            ELSE IF status = "sell"
            \* OrdersSellDecision.sell_amount is optional: 0 stands for None
            THEN [base EXCEPT !.status = "orders_sell",
                              !.sell_amount =
                                  IF Has(r, "sell_amount")
                                  THEN r.obj["sell_amount"] ELSE 0]
            ELSE IF strict THEN ParseError ELSE ParseResponse(r)

\* the number of open orders get_orders returned in this review
OpenOrders ==
    LET got == Logged(cycle_log, {"get_orders"})
    IN IF got = {} THEN 0
       ELSE cycle_log[CHOOSE i \in got : \A j \in got : j <= i].amount

\* _handle_post_cancel_actions
PostCancelActions(remaining, monitor_ok, btc, outcome) ==
    IF monitor_ok /\ btc > 0
    THEN <<Ev("sell_all_btc", btc)>> \o Notify(outcome)
             \o (IF NotifyRaises(outcome)
                 THEN <<Ev("review_call_failed", 0)>> ELSE << >>)
    ELSE << >>

OrdersCallsWithBuy(d, api_ok, monitor_ok, btc, notice) ==
    IF d.status = "buy"
    THEN <<Ev("place_buy_order", d.buy_amount)>>
    ELSE << >>

\* execute_orders_decision: the trading-API and notifier calls it makes for
\* a decision; notice is how its notifier calls end
OrdersCalls(d, api_ok, monitor_ok, btc, notice) ==
    IF d.status = "orders_cancel"
    THEN LET remaining == Max(OpenOrders - 1, 0)
         IN IF api_ok
            THEN <<Ev("cancel_order_by_inst_id", remaining),
                   Ev("get_order_details", 0)>>
                     \o Notify(notice)
                     \o (IF NotifyRaises(notice)
                         THEN <<Ev("review_call_failed", 0)>>
                         ELSE PostCancelActions(remaining, monitor_ok, btc,
                                                notice))
            ELSE <<Ev("cancel_order_by_inst_id", OpenOrders),
                   Ev("review_call_failed", 0)>>
    ELSE IF d.status = "orders_sell"
    THEN IF d.sell_amount = 0
         THEN <<Ev("sell_all_btc", 0)>>
         ELSE <<Ev("review_sell", d.sell_amount)>>
    \* PauseDecision, or a type the isinstance chain does not know
    ELSE << >>

\* check_orders_cycle from the reply on: parse_orders_decision,
\* execute_orders_decision and the update of last_orders_check
ExecuteOrdersDecision(strict, api_ok, monitor_ok, btc, notice) ==
    /\ bot_pc = "orders_exec"
    /\ bot_pc' = "orders_done"
    /\ last_return' = NoReturn
    /\ LET d == ParseOrdersDecision(last_return.value, strict)
       IN IF d = ParseError
          THEN /\ cycle_log' = cycle_log \o <<Ev("orders_failed", 0)>>
               /\ UNCHANGED orders_check_age
          ELSE /\ cycle_log' = cycle_log
                     \o <<Ev("orders_decision", d.buy_amount)>>
                     \o OrdersCalls(d, api_ok, monitor_ok, btc, notice)
               /\ orders_check_age' = review_age
    /\ UNCHANGED <<unitvars,
                   conversation_history, last_successful_response,
                   retry_count, request_in_progress, pc, call,
                   last_request_age, sleep_left, bot_sleep_left, review_age,
                   is_initialized, is_running, api_client, telegram_notifier,
                   bot_phase, market_data, decision, iterations,
                   caught_before, stop_requested,
                   reply_acted>>

\* check_orders_cycle has returned and trading_cycle is entered
StartTradingCycle ==
    /\ bot_pc = "orders_done"
    /\ bot_pc' = "fetch"
    /\ cycle_log' = << >>
    /\ UNCHANGED <<unitvars,
                   hvars, tvars, is_initialized, is_running, api_client,
                   telegram_notifier, bot_phase, market_data, decision,
                   iterations, caught_before, stop_requested,
                   reply_acted>>

\* asyncio.sleep(update_interval) has ended
LoopWake ==
    /\ bot_pc = "sleeping"
    /\ bot_sleep_left = 0
    /\ bot_pc' = "loop"
    /\ UNCHANGED <<unitvars,
                   hvars, tvars, is_initialized, is_running, api_client,
                   telegram_notifier, bot_phase, market_data, decision,
                   cycle_log, iterations, caught_before, stop_requested,
                   reply_acted>>

Running ==
    bot_pc \in {"fetch", "ask", "wait", "exec", "loop", "orders", "orders_ask",
                "orders_exec", "orders_done", "sleeping"}

StopWithoutEffect ==
    /\ Running
    /\ ~stop_requested
    /\ stop_requested' = TRUE
    /\ UNCHANGED <<unitvars,
                   hvars, tvars, is_initialized, is_running, api_client,
                   telegram_notifier, bot_pc, bot_phase, market_data,
                   decision, cycle_log, iterations, caught_before,
                   reply_acted>>

\* stop
Stop ==
    /\ Running
    /\ ~stop_requested
    /\ is_running' = FALSE
    /\ stop_requested' = TRUE
    /\ UNCHANGED <<unitvars,
                   hvars, tvars, is_initialized, api_client,
                   telegram_notifier, bot_pc, bot_phase, market_data,
                   decision, cycle_log, iterations, caught_before,
                   reply_acted>>

-----------------------------------------------------------------------------
(* TradingAPIClient *)

MaxCalls == 2

ClientOps ==
    {"get_health", "get_market_analytics", "get_market_monitor",
     "place_buy_order", "place_sell_order", "cancel_order",
     "test_connection"}

MarketReads == {"get_market_analytics", "get_market_monitor"}

\* the method and path an operation requests
Endpoint(op) ==
    CASE op \in {"get_health", "test_connection"} -> "GET /api/v1/health"
      [] op = "get_market_analytics" -> "GET /api/v1/market/analytics"
      [] op = "get_market_monitor" -> "GET /api/v1/market/monitor"
      [] op = "place_buy_order" -> "POST /api/v1/orders/buy"
      [] op = "place_sell_order" -> "POST /api/v1/orders/sell"
      [] op = "cancel_order" -> "POST /api/v1/orders/cancel"

\* how one HTTP request ends: a 2xx answer with the expected JSON, a 2xx
\* answer whose JSON is no market snapshot, a non-2xx status, a transport
\* failure, a body that is no JSON
HttpOutcomes ==
    {"ok", "other_json", "status_error", "transport_error", "bad_body"}

\* the operations that place or cancel an order
MutatingOps == {"place_buy_order", "place_sell_order", "cancel_order"}

\* no demo entry in the request
NoDemo == [in |-> "none", type |-> "none", value |-> "none"]

\* str(bool).lower(), also the JSON text of a bool
StrLower(b) == IF b THEN "true" ELSE "false"

DemoFieldDefault(op, demo) ==
    IF op \in MutatingOps
    THEN [in |-> "json", type |-> "bool", value |-> StrLower(FALSE)]
    ELSE IF op \in MarketReads
    THEN [in |-> "params", type |-> "str", value |-> StrLower(demo)]
    ELSE NoDemo

\* the demo entry an operation puts in its request: the flag itself in the
\* JSON body of an order request, its lower-cased text in the query of a
\* market read, none in a health request
DemoField(op, demo) ==
    IF op \in MutatingOps
    THEN [in |-> "json", type |-> "bool", value |-> StrLower(demo)]
    ELSE IF op \in MarketReads
    THEN [in |-> "params", type |-> "str", value |-> StrLower(demo)]
    ELSE NoDemo

\* the request an operation hands to _make_request
HttpRequest(op, demo) == [endpoint |-> Endpoint(op), demo |-> DemoField(op, demo)]

MakeRequestRetrying(request, outcome) ==
    [requests |-> IF outcome \in {"ok", "other_json"}
                  THEN <<request>> ELSE <<request, request>>,
     result |-> IF outcome \in {"ok", "other_json"}
                THEN outcome ELSE "raised"]

\* _make_request: the requests it issues and what it gives its caller
MakeRequest(request, outcome) ==
    [requests |-> <<request>>,
     result |-> IF outcome \in {"ok", "other_json"}
                THEN outcome ELSE "raised"]

\* what an operation gives its caller for the result of _make_request
ClientResult(op, result) ==
    IF op = "test_connection"
    THEN (IF result = "raised" THEN "false" ELSE "true")
    ELSE IF op \in MarketReads /\ result = "other_json"
    \* MarketData(**data) rejects the object
    THEN "raised"
    ELSE IF result = "raised" THEN "raised" ELSE "returned"

\* TradingAPIClient(settings)
ClientConstructed(settings_demo_mode) ==
    /\ http_requests = << >>
    /\ client_results = << >>
    /\ demo_mode = settings_demo_mode

\* the client of the default settings
ClientInit == ClientConstructed(FALSE)

\* one call of an operation of the client
ClientCall(op, outcome) ==
    /\ Len(client_results) < MaxCalls
    /\ LET made == MakeRequest(HttpRequest(op, demo_mode), outcome)
       IN /\ http_requests' = http_requests \o made.requests
          /\ client_results' =
                Append(client_results,
                       [op |-> op, outcome |-> outcome,
                        result |-> ClientResult(op, made.result)])
    /\ UNCHANGED <<hvars, tvars, bvars, pvars, demo_mode, wvars>>

-----------------------------------------------------------------------------
(* OpenAIHandler.wait_for_completion *)

poll_interval == 2
default_max_wait_time == 120

\* the budgets a caller may pass
WaitBudgets == {0, 1, 4, 5, default_max_wait_time}

NoThread == "none"

\* what one runs.retrieve call gives: the status of the run, or an exception
RunStatuses ==
    {"completed", "failed", "in_progress", "cancelled", "raised"}

NotPolled == "not_polled"

WaitIdle ==
    /\ wait_time = 0
    /\ polls = 0
    /\ run_status = NotPolled
    /\ wait_pc = "idle"
    /\ wait_result = "none"

\* the handler before any wait, with the default budget
WaitInit ==
    /\ thread_id = NoThread
    /\ max_wait_time = default_max_wait_time
    /\ WaitIdle

\* wait_for_completion is entered: ValueError without a thread
WaitEnter ==
    /\ wait_pc = "idle"
    /\ IF thread_id = NoThread
       THEN /\ wait_pc' = "raised"
            /\ wait_result' = "ValueError"
       ELSE /\ wait_pc' = "loop"
            /\ UNCHANGED wait_result
    /\ wait_time' = 0
    /\ UNCHANGED <<hvars, tvars, bvars, pvars, cvars, thread_id,
                   max_wait_time, polls, run_status>>

\* one turn of the while loop: runs.retrieve, the two returns, and in every
\* other case (the except clause included) the sleep and wait_time += 2
WaitLoop(status) ==
    /\ wait_pc = "loop"
    /\ wait_time < max_wait_time
    /\ polls' = polls + 1
    /\ run_status' = status
    /\ IF status \in {"completed", "failed"}
       THEN /\ wait_pc' = "returned"
            /\ wait_result' = IF status = "completed" THEN "true" ELSE "false"
            /\ UNCHANGED wait_time
       ELSE /\ wait_time' = wait_time + poll_interval
            /\ UNCHANGED <<wait_pc, wait_result>>
    /\ UNCHANGED <<hvars, tvars, bvars, pvars, cvars, thread_id,
                   max_wait_time>>

\* the loop test fails: the budget is used up
WaitTimeout ==
    /\ wait_pc = "loop"
    /\ ~(wait_time < max_wait_time)
    /\ wait_pc' = "returned"
    /\ wait_result' = "false"
    /\ UNCHANGED <<hvars, tvars, bvars, pvars, cvars, thread_id,
                   max_wait_time, wait_time, polls, run_status>>

-----------------------------------------------------------------------------
(* Spec: concurrent callers of one handler *)

botclock == <<bot_sleep_left, reviewclock>>

Init ==
    /\ HandlerInit
    /\ BotInit
    /\ response_text = NoResponse
    /\ ParserIdle
    /\ ClientInit
    /\ WaitInit

Enter == \E t \in Callers, is_initial \in BOOLEAN :
            GTD_Enter(t, is_initial) /\ UNCHANGED <<bvars, botclock, unitvars>>
Request == \E t \in Callers, o \in Outcomes(HandlerReplies) :
            GTD_Request(t, o) /\ UNCHANGED <<bvars, botclock, unitvars>>
Retry == \E t \in Callers, o \in Outcomes(HandlerReplies) :
            GTD_Retry(t, o) /\ UNCHANGED <<bvars, botclock, unitvars>>
Wake == \E t \in Callers : GTD_Wake(t) /\ UNCHANGED <<bvars, botclock, unitvars>>
CheckOrders == \E t \in Callers, o \in Outcomes(HandlerReplies) :
            CheckOrdersDecision(t, o) /\ UNCHANGED <<bvars, botclock, unitvars>>
Reset == ResetRetryState /\ UNCHANGED <<bvars, botclock, unitvars>>

Next ==
    \/ Enter
    \/ Request
    \/ Retry
    \/ Wake
    \/ CheckOrders
    \/ Reset
    \/ TickInterval
    \/ TickDelay

Spec == Init /\ [][Next]_vars

\* a completion call returns or raises, and asyncio.sleep ends
FairSpec ==
    /\ Spec
    /\ WF_vars(Request)
    /\ WF_vars(Retry)
    /\ WF_vars(Wake)
    /\ WF_vars(TickDelay)

-----------------------------------------------------------------------------
(* BotSpec: one TradingBot *)

BotRequest == \E o \in Outcomes(BotReplies) :
            GTD_Request(BotCaller, o) /\ UNCHANGED <<bvars, botclock, unitvars>>
BotRetry == \E o \in Outcomes(BotReplies) :
            GTD_Retry(BotCaller, o) /\ UNCHANGED <<bvars, botclock, unitvars>>
BotWake == GTD_Wake(BotCaller) /\ UNCHANGED <<bvars, botclock, unitvars>>

BotInitialize == \E failed \in InitFailures, notifier_ok \in BOOLEAN :
            Initialize(failed, notifier_ok)
BotFetch == \E ok \in BOOLEAN, usdt \in Balances : FetchSnapshot(ok, usdt)
BotExecute == \E ok \in BOOLEAN, outcome \in NotifyOutcomes :
            ExecuteDecision(ok, outcome)
BotCheckOrders == \E ok \in BOOLEAN, n \in OpenOrderCounts :
            CheckOrdersCycle(ok, n)
BotAskOrders == \E o \in Outcomes(OrdersReplies) : AskOrdersDecision(o)
BotExecuteOrders ==
    \E strict, api_ok, monitor_ok \in BOOLEAN, btc \in BtcBalances,
       notice \in NotifyOutcomes :
        ExecuteOrdersDecision(strict, api_ok, monitor_ok, btc, notice)

BotNext ==
    \/ BotInitialize
    \/ RunStart
    \/ BotFetch
    \/ AskDecision
    \/ BotRequest
    \/ BotRetry
    \/ BotWake
    \/ TakeDecision
    \/ BotExecute
    \/ LoopTest
    \/ BotCheckOrders
    \/ BotAskOrders
    \/ BotExecuteOrders
    \/ StartTradingCycle
    \/ LoopWake
    \/ Stop
    \/ TickInterval
    \/ TickDelay

BotSpec == Init /\ [][BotNext]_vars

-----------------------------------------------------------------------------
(* RunSpec: the loop of run with fewer inputs, and its steps taken *)

RunInitialize == \E failed \in {"none", "test_connection"} :
            Initialize(failed, TRUE)
RunFetch == \E ok \in BOOLEAN : FetchSnapshot(ok, 46)
RunRequest == \E o \in Outcomes({SellReply, StrategyReply}) :
            GTD_Request(BotCaller, o) /\ UNCHANGED <<bvars, botclock, unitvars>>
RunRetry == \E o \in Outcomes({SellReply}) :
            GTD_Retry(BotCaller, o) /\ UNCHANGED <<bvars, botclock, unitvars>>
RunExecute == \E ok \in BOOLEAN : ExecuteDecision(ok, "sent")
RunCheckOrders == \E ok \in BOOLEAN : CheckOrdersCycle(ok, 1)
RunAskOrders == \E o \in {Reply(CancelReply), UpstreamError} :
            AskOrdersDecision(o)
RunExecuteOrders == \E api_ok \in BOOLEAN :
            ExecuteOrdersDecision(TRUE, api_ok, TRUE, 1, "sent")

\* the steps of run once it has been entered
RunProgress ==
    \/ RunFetch
    \/ AskDecision
    \/ RunRequest
    \/ RunRetry
    \/ BotWake
    \/ TakeDecision
    \/ RunExecute
    \/ LoopTest
    \/ RunCheckOrders
    \/ RunAskOrders
    \/ RunExecuteOrders
    \/ StartTradingCycle
    \/ LoopWake
    \/ TickDelay

RunNext ==
    \/ RunInitialize
    \/ RunStart
    \/ RunFetch
    \/ AskDecision
    \/ RunRequest
    \/ RunRetry
    \/ BotWake
    \/ TakeDecision
    \/ RunExecute
    \/ LoopTest
    \/ RunCheckOrders
    \/ RunAskOrders
    \/ RunExecuteOrders
    \/ StartTradingCycle
    \/ LoopWake
    \/ Stop
    \/ TickInterval
    \/ TickDelay

\* every pending call of a cycle returns or raises and every sleep ends
RunSpec == Init /\ [][RunNext]_vars /\ WF_vars(RunProgress)

-----------------------------------------------------------------------------
(* ParserSpec: ResponseParser on one reply text *)

ParserInit ==
    /\ HandlerInit
    /\ BotInit
    /\ response_text \in ParserInputs
    /\ ParserIdle
    /\ ClientInit
    /\ WaitInit

ParserNext ==
    \/ ParseResponseCall
    \/ ValidateDecisionCall
    \/ ParseAndValidateCall

ParserSpec == ParserInit /\ [][ParserNext]_vars

-----------------------------------------------------------------------------
(* ClientSpec: callers of one TradingAPIClient *)

Call == \E op \in ClientOps, outcome \in HttpOutcomes : ClientCall(op, outcome)

ClientNext == Call

\* the client of either setting of demo_mode
ClientSpecInit ==
    /\ HandlerInit
    /\ BotInit
    /\ response_text = NoResponse
    /\ ParserIdle
    /\ \E settings_demo_mode \in BOOLEAN :
          ClientConstructed(settings_demo_mode)
    /\ WaitInit

ClientSpec == ClientSpecInit /\ [][ClientNext]_vars

-----------------------------------------------------------------------------
(* WaitSpec: one call of OpenAIHandler.wait_for_completion *)

WaitSpecInit ==
    /\ HandlerInit
    /\ BotInit
    /\ response_text = NoResponse
    /\ ParserIdle
    /\ ClientInit
    /\ thread_id \in {NoThread, "thread_1"}
    /\ max_wait_time \in WaitBudgets
    /\ WaitIdle

Poll == \E status \in RunStatuses : WaitLoop(status)

WaitNext ==
    \/ WaitEnter
    \/ Poll
    \/ WaitTimeout

WaitSpec == WaitSpecInit /\ [][WaitNext]_vars

\* a runs.retrieve call returns or raises, and asyncio.sleep ends
WaitFairSpec ==
    /\ WaitSpec
    /\ WF_vars(WaitEnter)
    /\ WF_vars(Poll)
    /\ WF_vars(WaitTimeout)

-----------------------------------------------------------------------------
(* Claims about the decision client *)

InFlight(t) == pc[t] \in {"request", "retry", "sleeping"}

\* C1: at most one get_trading_decision call is between acceptance (setting
\* _request_in_progress) and its release at any time
C1_AtMostOneInFlight ==
    Cardinality({t \in Callers : InFlight(t)}) <= 1

C1_Witness ==
    /\ \E t \in Callers : InFlight(t)
    /\ request_in_progress
    /\ last_return.kind = "in_flight"

\* C2: a non-initial call arriving while a request is in flight, or less than
\* _min_request_interval after the last accepted one, makes no completion
\* call, is not queued, and returns last_successful_response if there is one,
\* otherwise a synthesized pause
C2_RejectedCallSubstitutes ==
    [][\A t \in Callers :
        (/\ GTD_Enter(t, FALSE)
         /\ (request_in_progress \/ last_request_age < min_request_interval))
        => /\ pc'[t] = "idle"
           /\ call'[t] = call[t]
           /\ last_return'.kind \in {"throttled", "in_flight"}
           /\ last_return'.upstream = 0
           /\ conversation_history' = conversation_history
           /\ IF last_successful_response \notin {NoResponse, EmptyText}
              THEN last_return'.value = last_successful_response
              ELSE last_return'.value \in SynthesizedPauses]_vars

C2_Witness ==
    /\ last_return.kind = "throttled"
    /\ last_return.value = last_successful_response
    /\ last_successful_response = UpperBuyReply
    /\ ~request_in_progress

\* C8: the corrective follow-up is issued exactly once iff the first reply
\* fails the closed-set status check; a call makes at most two completion
\* calls, and the reply of the follow-up is returned even if it fails the
\* check again
C8_OneCorrectiveFollowUp ==
    [][\A t \in Callers, o \in Outcomes(HandlerReplies) :
        /\ GTD_Request(t, o)
             => (pc'[t] = "retry"
                   <=> (o.kind = "reply" /\ ~IsValidResponse(o.text)))
        /\ GTD_Retry(t, o)
             => /\ pc'[t] \in {"idle", "sleeping"}
                /\ o.kind = "reply"
                     => /\ pc'[t] = "idle"
                        /\ last_return'.kind = "reply"
                        /\ last_return'.value = o.text
                        /\ last_return'.upstream = 2
        /\ call'[t].upstream <= 2
        /\ call'[t].followups <= 1
        /\ last_return'.upstream <= 2]_vars

C8_Witness ==
    /\ last_return.kind = "reply"
    /\ last_return.upstream = 2
    /\ ~IsValidResponse(last_return.value)

C12_SuccessResetsRetryCount ==
    [][\A t \in Callers, o \in Outcomes(HandlerReplies) :
        ((GTD_Request(t, o) \/ GTD_Retry(t, o))
            /\ o.kind = "reply" /\ pc'[t] = "idle")
          => /\ retry_count' = 0
             /\ last_return'.kind = "reply"
             /\ last_return'.value = o.text]_vars

C12_Witness ==
    /\ last_return.kind = "reply"
    /\ last_return.cleared = 2
    /\ retry_count = 0
    /\ last_return.value = last_successful_response

NoCallExecuting == \A t \in Callers : pc[t] = "idle"

\* C13: every accepted get_trading_decision call eventually clears
\* _request_in_progress on every exit path (reply, upstream exception,
\* region-denied fallback, exhausted retries); whenever no call is executing
\* the flag is false
C13_GuardReleased ==
    /\ [](NoCallExecuting => ~request_in_progress)
    /\ \A t \in Callers :
          InFlight(t) ~> (pc[t] = "idle" /\ ~request_in_progress)

C13_Witness ==
    /\ NoCallExecuting
    /\ ~request_in_progress
    /\ last_return.kind = "raised"
    /\ retry_count = 4
    /\ last_successful_response # NoResponse

\* a step assigns one of the fields the handler's requests share
SharedStateMutated ==
    \/ conversation_history' # conversation_history
    \/ retry_count' # retry_count
    \/ last_successful_response' # last_successful_response
    \/ last_request_age' < last_request_age

\* C14: every mutation of conversation_history, retry_count,
\* last_successful_response and _last_request_timestamp is made by a request
\* that holds the guard at that moment; no operation mutates them while
\* another request holds the guard
C14_MutationsUnderGuard ==
    [][SharedStateMutated
         => \E t \in Callers :
               /\ pc'[t] # pc[t]
               /\ InFlight(t) \/ InFlight(t)']_vars

\* C15: a check_orders_decision call made while a decision request is in
\* flight, or less than the minimum interval after the last accepted
\* request, issues no upstream completion call
C15_OrderReviewThrottled ==
    [][\A t \in Callers, o \in Outcomes(HandlerReplies) :
        (/\ CheckOrdersDecision(t, o)
         /\ (request_in_progress \/ last_request_age < min_request_interval))
        => /\ last_return'.upstream = 0
           /\ conversation_history' = conversation_history]_vars

\* C9: last_successful_response is either unset or a text that passes
\* _is_valid_response
C9_LastSuccessfulIsValid ==
    \/ last_successful_response = NoResponse
    \/ IsValidResponse(last_successful_response)

\* C10: whenever no request is executing the conversation history holds at
\* most 10 entries
C10_HistoryCapped ==
    (\A t \in Callers : pc[t] = "idle")
        => Len(conversation_history) <= history_limit

\* C36: a get_trading_decision call that is rejected (throttled, or because
\* a request is in flight) leaves conversation_history, retry_count,
\* last_successful_response, _last_request_timestamp and
\* _request_in_progress as they were: it neither extends the throttle window
\* nor releases the guard of the request in flight
C36_RejectionChangesNothing ==
    [][\A t \in Callers, is_initial \in BOOLEAN :
        (/\ GTD_Enter(t, is_initial)
         /\ \/ (~is_initial /\ last_request_age < 5)
            \/ request_in_progress)
        => /\ conversation_history' = conversation_history
           /\ retry_count' = retry_count
           /\ last_successful_response' = last_successful_response
           /\ last_request_age' = last_request_age
           /\ request_in_progress' = request_in_progress
           /\ \A u \in Callers : pc'[u] = pc[u] /\ sleep_left'[u] = sleep_left[u]
           /\ last_return'.kind \in {"throttled", "in_flight"}]_vars

C36_Witness ==
    /\ last_return.kind = "in_flight"
    /\ request_in_progress
    /\ last_request_age < min_request_interval
    /\ retry_count = 2
    /\ \E t \in Callers : pc[t] = "sleeping" /\ sleep_left[t] = retry_delay

\* C37: on the region-denied fallback path the guard stays held for the
\* whole retry delay: from the acceptance of the failing request until its
\* delay has elapsed every other get_trading_decision call, initial or not,
\* is rejected with a substitute and makes no upstream call; the guard is
\* released only after the delay
C37_GuardHeldDuringDelay ==
    /\ [](\A t \in Callers : InFlight(t) => request_in_progress)
    /\ [][\A t \in Callers :
            InFlight(t)
              => \A u \in Callers \ {t}, is_initial \in BOOLEAN :
                    GTD_Enter(u, is_initial)
                      => /\ last_return'.kind \in {"throttled", "in_flight"}
                         /\ last_return'.upstream = 0
                         /\ last_return'.value \in
                               {last_successful_response, ThrottlePause,
                                InFlightPause}
                         /\ pc'[u] = "idle"
                         /\ request_in_progress']_vars
    /\ [][\A t \in Callers :
            pc[t] = "sleeping"
              => /\ (sleep_left[t] > 0 \/ pc'[t] = "sleeping")
                       => request_in_progress' /\ pc'[t] = "sleeping"
                 /\ ~request_in_progress'
                       => /\ sleep_left[t] = 0
                          /\ last_return'.kind = "fallback"]_vars

C37_Witness ==
    /\ \E t \in Callers : pc[t] = "sleeping" /\ sleep_left[t] > 0
    /\ request_in_progress
    /\ last_request_age = min_request_interval
    /\ last_return.kind = "in_flight"
    /\ last_return.value = InFlightPause

-----------------------------------------------------------------------------
(* Claims about the orchestrator *)

BuyCalls == Logged(cycle_log, {"place_buy_order"})

\* the amounts of the Buy decisions taken in the current iteration
BuyDecided ==
    {cycle_log[i].amount : i \in {j \in Logged(cycle_log, {"decision"}) :
                                    cycle_log[j].amount > 0}}

\* C3: every place_buy_order call has buy_amount >= 10, buy_amount <= the
\* USDT balance of the cycle's snapshot and balance - buy_amount >= 35; when
\* one of the three checks fails no trading-API call is made for the decision
C3_BuySafetyGate ==
    /\ \A i \in BuyCalls :
          /\ cycle_log[i].amount >= 10
          /\ cycle_log[i].amount <= market_data
          /\ market_data - cycle_log[i].amount >= 35
    /\ \A a \in BuyDecided :
          (a < 10 \/ a > market_data \/ market_data - a < 35)
              => Logged(cycle_log, OrderEvents) = {}

C3_Witness ==
    /\ \E i \in BuyCalls : market_data - cycle_log[i].amount > 35
    /\ bot_phase = "cycle"

Executed == bot_pc \in {"loop", "sleeping", "run_failed"}

\* C4: a validated Buy of exactly balance - 35 (and at least 10) makes exactly
\* one place_buy_order call; a Buy of balance - 35 + 1 makes none; a Buy of 5
\* makes none
C4_GateBoundary ==
    \A a \in BuyDecided :
        /\ (a = market_data - 35 /\ a >= 10 /\ Executed)
              => Cardinality(BuyCalls) = 1
        /\ a = market_data - 35 + 1 => BuyCalls = {}
        /\ a = 5 => BuyCalls = {}

C4_Witness ==
    /\ Executed
    /\ \E i \in BuyCalls : cycle_log[i].amount = market_data - 35

Before(i, ev) == {j \in 1..(i - 1) : cycle_log[j].ev = ev}

\* C5: an order-mutating call (buy, sell, cancel) occurs only if, earlier in
\* the same cycle and in this order, the snapshot fetch succeeded, the LLM
\* client returned a reply and parse_and_validate returned a decision; if one
\* of those steps fails the cycle places no order
C5_OrderOnlyAfterPipeline ==
    /\ \A i \in Logged(cycle_log, OrderEvents) :
          \E j \in Before(i, "snapshot"), k \in Before(i, "reply"),
             l \in Before(i, "decision") : j < k /\ k < l
    /\ Logged(cycle_log, StepFailures) # {}
          => Logged(cycle_log, OrderEvents) = {}

C5_Witness ==
    /\ bot_phase = "cycle"
    /\ Logged(cycle_log, {"place_sell_order"}) # {}

InCycle ==
    /\ bot_phase = "cycle"
    /\ bot_pc \in {"orders", "orders_ask", "orders_exec", "orders_done",
                  "fetch", "ask", "wait", "exec"}

\* C6: an exception raised inside a trading_cycle or check_orders_cycle
\* iteration is caught within the iteration and does not stop the loop of
\* run: while is_running stays true the next iteration's order-review and
\* trading cycles are executed
C6_CycleFailuresContained ==
    [][/\ InCycle
            => /\ bot_pc' \in {"orders", "orders_ask", "orders_exec",
                               "orders_done", "fetch", "ask", "wait", "exec",
                               "sleeping"}
               /\ is_running' = is_running \/ stop_requested'
               /\ api_client' = api_client
       /\ (InCycle /\ Logged(cycle_log', FailureEvents)
                         \ Logged(cycle_log, FailureEvents) # {})
            => bot_pc' \in {"orders_done", "sleeping"}
       /\ (bot_phase = "cycle" /\ bot_pc = "sleeping")
            => /\ bot_pc' \in {"sleeping", "loop"}
               /\ is_running' = is_running \/ stop_requested'
       /\ (bot_pc = "loop" /\ is_running /\ bot_pc' # bot_pc)
            => bot_pc' = "orders"
       /\ (bot_pc = "orders" /\ bot_pc' # bot_pc)
            => bot_pc' \in {"orders_ask", "orders_done"}
       /\ (bot_pc = "orders_ask" /\ bot_pc' # bot_pc) => bot_pc' = "orders_exec"
       /\ (bot_pc = "orders_exec" /\ bot_pc' # bot_pc) => bot_pc' = "orders_done"
       /\ (bot_pc = "orders_done" /\ bot_pc' # bot_pc) => bot_pc' = "fetch"]_vars

C6_Witness ==
    /\ caught_before
    /\ is_running
    /\ Logged(cycle_log, {"decision"}) # {}

\* C7: after initialize has succeeded and run has been entered, run ends only
\* after a stop request: no failure inside run (the initial data send
\* included) makes it exit or raise
C7_RunEndsOnlyOnStop ==
    bot_pc \in {"stopped", "run_failed"} => stop_requested

ReviewPcs == {"orders", "orders_ask", "orders_exec"}

\* C16: two order-review runs that pass the time gate of check_orders_cycle
\* start at least orders_check_interval (600 s) apart, whatever the outcome
\* of the earlier run
C16_ReviewsSpaced ==
    [][(bot_pc = "orders" /\ Logged(cycle_log', {"review_started"}) # {})
         => review_age >= 600]_vars

\* C17: no order-review cycle issues a buy order, whatever the LLM replies:
\* check_orders_cycle / execute_orders_decision results only in no action, a
\* cancel or a sell
C17_ReviewNeverBuys ==
    [][(bot_pc \in ReviewPcs)
         => \A i \in DOMAIN cycle_log' :
               (cycle_log'[i].ev # "place_buy_order"
                  /\ cycle_log'[i].ev \notin OrderEvents)]_vars

C17_Witness ==
    /\ bot_pc = "orders_done"
    /\ \E i \in Logged(cycle_log, {"orders_decision"}) :
          cycle_log[i].amount > 0

\* C18: after an order-review cancel the automatic sell-all is issued only if
\* the cancel left no open orders and the refreshed BTC balance is positive
C18_SellAllOnlyWhenEmptied ==
    \A i \in Logged(cycle_log, {"sell_all_btc"}),
       j \in Logged(cycle_log, {"cancel_order_by_inst_id"}) :
        j < i => cycle_log[j].amount = 0 /\ cycle_log[i].amount > 0

\* the order-mutating calls among the events a step appends
NewOrderCalls ==
    LET new == SubSeq(cycle_log', Len(cycle_log) + 1, Len(cycle_log'))
    IN SelectSeq(new, LAMBDA e : e.ev \in OrderEvents)

\* C19: in a trading cycle a validated Sell leads to exactly one
\* place_sell_order(sell_amount) call and no buy or cancel call, a Cancel to
\* exactly one cancel_order(order_id) call, a Pause to no order call, a Buy to
\* at most one place_buy_order call; no cycle issues more than one
\* order-mutating call
C19_OneCallPerDecision ==
    [][/\ (bot_pc = "exec" /\ bot_pc' # "exec")
            => CASE decision.status = "sell" ->
                      NewOrderCalls
                        = <<Ev("place_sell_order", decision.sell_amount)>>
                 [] decision.status = "cancel" ->
                      NewOrderCalls
                        = <<Ev("cancel_order", decision.order_id)>>
                 [] decision.status = "pause" -> NewOrderCalls = << >>
                 [] decision.status = "buy" ->
                      NewOrderCalls \in
                        {<< >>,
                         <<Ev("place_buy_order", decision.buy_amount)>>}
                 [] OTHER -> FALSE
       /\ bot_pc # "exec" => NewOrderCalls = << >>
       /\ Cardinality(Logged(cycle_log', OrderEvents)) <= 1]_vars

C19_Witness ==
    /\ Executed
    /\ bot_phase = "cycle"
    /\ \E i \in Logged(cycle_log, {"cancel_order"}) :
          cycle_log[i].amount = "o1"

\* C20: if a step of initialize fails, cleanup runs, the error propagates and
\* the bot is left uninitialized; is_initialized becomes true only after
\* every initialization step has completed
C20_InitializeAllOrNothing ==
    /\ bot_pc = "init_failed"
          => /\ ~is_initialized
             /\ api_client # "open"
             /\ telegram_notifier # "open"
    /\ is_initialized
          => /\ bot_pc \notin {"new", "init_failed"}
             /\ api_client # "none"
             /\ telegram_notifier # "none"

C20_Witness ==
    /\ bot_pc = "init_failed"
    /\ api_client = "closed"

InitLogged(ev) == \E i \in DOMAIN cycle_log' : cycle_log'[i].ev = ev

\* C21: in initialize a failed connectivity check of the trading API is fatal
\* and is raised before the LLM client is constructed; a failed connectivity
\* check of the notifier is not fatal, the bot is initialized all the same
C21_ConnectivityChecks ==
    [][\A failed \in InitFailures, notifier_ok \in BOOLEAN :
        Initialize(failed, notifier_ok)
          => /\ failed = "test_connection"
                  => /\ bot_pc' = "init_failed"
                     /\ ~is_initialized'
                     /\ InitLogged("connection_error")
                     /\ ~InitLogged("openai_handler_created")
                     /\ ~InitLogged("notifier_created")
             /\ InitLogged("openai_handler_created")
                  => InitLogged("api_connected")
             /\ (failed = "none" /\ ~notifier_ok)
                  => /\ bot_pc' = "initialized"
                     /\ is_initialized'
                     /\ telegram_notifier' = "open"
                     /\ InitLogged("notifier_warning")]_vars

C21_Witness ==
    /\ bot_pc = "initialized"
    /\ is_initialized
    /\ Logged(cycle_log, {"notifier_warning"}) # {}

Ended == bot_pc \in {"stopped", "run_failed", "init_failed"}

\* C22: whenever run ends (after stop or by an exception) and whenever
\* initialize fails, close() has been invoked on every network client that
\* was constructed, also when closing an earlier client fails
C22_AllClientsClosed ==
    Ended => api_client # "open" /\ telegram_notifier # "open"

\* a log without the notifier's entries
WithoutNotify(log) == SelectSeq(log, LAMBDA e : e.ev # "notify")

\* C23: whatever the outcome of a notifier call (sent, HTTP error, malformed
\* response, exception), the trading-API calls of the cycle and the state of
\* the orchestrator after it are those of a cycle whose notification was
\* sent, and no exception of the notifier reaches the cycle
C23_NotifierNeverAffectsTrading ==
    /\ bot_pc = "exec"
         => \A ok \in BOOLEAN, outcome \in NotifyOutcomes :
              /\ WithoutNotify(ExecuteEvents(decision, market_data, ok,
                                             outcome))
                    = WithoutNotify(ExecuteEvents(decision, market_data, ok,
                                                  "sent"))
              /\ ExecuteRaises(decision, market_data, ok, outcome)
                    = ExecuteRaises(decision, market_data, ok, "sent")
              /\ ExecuteRaises(decision, market_data, ok, outcome) => ~ok
    /\ bot_pc = "orders_exec"
         => \A strict, api_ok, monitor_ok \in BOOLEAN, btc \in BtcBalances,
               notice \in NotifyOutcomes :
              LET d == ParseOrdersDecision(last_return.value, strict)
                  calls == OrdersCalls(d, api_ok, monitor_ok, btc, notice)
              IN d # ParseError
                   => /\ WithoutNotify(calls)
                          = WithoutNotify(OrdersCalls(d, api_ok, monitor_ok,
                                                      btc, "sent"))
                      /\ Logged(calls, {"review_call_failed"}) # {}
                            => ~api_ok
    /\ \A i \in Logged(cycle_log, {"notify"}) :
          /\ i > 1
          /\ cycle_log[i - 1].ev \in
                {"place_buy_order", "get_order_details", "sell_all_btc"}
          /\ i < Len(cycle_log)
                => cycle_log[i + 1].ev \notin FailureEvents
                                               \cup {"review_call_failed"}

C23_Witness ==
    /\ bot_phase = "cycle"
    /\ bot_pc = "sleeping"
    /\ Logged(cycle_log, {"place_buy_order"}) # {}
    /\ \E i \in Logged(cycle_log, {"notify"}) : cycle_log[i].amount = 0
    /\ Logged(cycle_log, FailureEvents) = {}

\* C33: run() on a bot whose initialize() has not succeeded raises
\* RuntimeError, leaves is_running false and makes no trading-API or LLM
\* call; the bot runs only after a successful initialize
C33_RunRequiresInitialized ==
    /\ (Running \/ is_running) => is_initialized
    /\ bot_pc = "not_initialized_error"
          => /\ ~is_initialized
             /\ ~is_running
             /\ api_client # "open"
             /\ iterations = 0
             /\ market_data = NoSnapshot
             /\ Logged(cycle_log, {"snapshot", "reply"} \cup OrderEvents) = {}
             /\ conversation_history = << >>
             /\ last_return = NoReturn
             /\ \A t \in Callers : pc[t] = "idle"

C33_Witness ==
    /\ bot_pc = "not_initialized_error"
    /\ api_client = "closed"
    /\ ~is_running

\* run has ended
RunExited == bot_pc \in {"stopped", "run_failed"}

\* the calls an iteration still makes fit under the bound of the history
HistoryRoom == Len(conversation_history) + 5 <= MaxHistory

\* C34: after stop() is called while the bot is running, run leaves the loop
\* once the pending calls and sleeps have returned, sets is_running to false
\* and runs cleanup; no iteration starts after the one in which the stop was
\* observed
C34_StopEndsRun ==
    /\ (stop_requested /\ HistoryRoom)
          ~> (RunExited /\ ~is_running /\ api_client \in CloseResults)
    /\ [][(stop_requested /\ bot_pc = "loop")
            => bot_pc' \in {"loop", "stopped"}]_vars
    /\ [][(stop_requested /\ ~stop_requested') => FALSE]_vars
    /\ [](RunExited => ~is_running)

C34_Witness ==
    /\ bot_pc = "stopped"
    /\ stop_requested
    /\ ~is_running
    /\ api_client = "closed"
    /\ iterations = 2
    /\ Logged(cycle_log, {"place_sell_order"}) # {}

\* C35: no upstream reply is acted on twice: each reply of an upstream
\* completion call leads to at most one order-mutating trading-API call, also
\* when later get_trading_decision calls are answered from
\* last_successful_response
C35_ReplyActedOnOnce == reply_acted # "again"

\* the notifications of a log that no call of the order review precedes:
\* those of notify_buy_order
BuyNotices(log) ==
    {i \in Logged(log, {"notify"}) :
        i = 1 \/ log[i - 1].ev \notin {"get_order_details", "sell_all_btc"}}

\* C38: a buy notification is sent only after place_buy_order has returned
\* successfully in the same cycle: a Buy rejected by the safety gate, or
\* whose place_buy_order call fails, produces no notification, and at most
\* one buy notification is sent per placed order
C38_BuyNoticeOnlyAfterPlacedOrder ==
    /\ bot_pc = "exec"
         => \A ok \in BOOLEAN, outcome \in NotifyOutcomes :
              LET evs == ExecuteEvents(decision, market_data, ok, outcome)
                  placed == Logged(evs, {"place_buy_order"})
              IN /\ Logged(evs, {"notify"}) # {}
                       => /\ ok
                          /\ decision.status = "buy"
                          /\ decision.buy_amount >= 10
                          /\ market_data - decision.buy_amount >= 35
                 /\ Cardinality(Logged(evs, {"notify"}))
                       <= Cardinality(placed)
                 /\ \A i \in Logged(evs, {"notify"}) : i - 1 \in placed
    /\ \A i \in BuyNotices(cycle_log) :
          /\ i - 1 \in BuyCalls
          /\ i + 1 \in DOMAIN cycle_log
                => cycle_log[i + 1].ev \notin {"notify", "order_failed"}
    /\ \A i \in BuyCalls :
          (i + 1 \in DOMAIN cycle_log /\ cycle_log[i + 1].ev = "order_failed")
              => BuyNotices(cycle_log) = {}
    /\ Logged(cycle_log, {"rejected"}) # {} => BuyNotices(cycle_log) = {}
    /\ Cardinality(BuyNotices(cycle_log)) <= Cardinality(BuyCalls)

C38_Witness ==
    /\ Executed
    /\ Cardinality(BuyNotices(cycle_log)) = 1
    /\ \E i \in BuyCalls :
          /\ i + 1 \in BuyNotices(cycle_log)
          /\ cycle_log[i + 1].amount = 1
          /\ i + 1 = Len(cycle_log)

-----------------------------------------------------------------------------
(* Claims about the parser *)

\* the text decodes to an object with the status and response keys
HasBaseFields(r) == Decodes(r) /\ Has(r, "status") /\ Has(r, "response")

\* the validation predicate of a decision's variant
Valid(d) ==
    CASE d.status = "buy" ->
            /\ d.buy_amount > 0
            /\ 0 < d.take_profit_percent /\ d.take_profit_percent <= 100
            /\ 0 < d.stop_loss_percent /\ d.stop_loss_percent <= 100
            /\ d.take_profit_percent > d.stop_loss_percent
      [] d.status = "sell" -> d.sell_amount > 0
      [] d.status = "cancel" -> d.order_id \notin {"", "  "}
      [] d.status = "pause" -> TRUE
      [] OTHER -> FALSE

\* the object has the shape of the status variant, with valid values and
\* no other key
ValidShape(r, status) ==
    /\ DOMAIN r.obj = {"status", "response"} \cup RequiredFields(status)
    /\ Valid([k \in DOMAIN NoDecision |->
                IF k \in RequiredFields(status) THEN r.obj[k]
                ELSE IF k = "status" THEN status ELSE NoDecision[k]])

\* C24: for every JSON object with status and response keys whose status is
\* outside {pause, buy, sell, cancel}, parse_response does not fail and
\* returns a Pause whose response names the original status, whatever other
\* fields are present
C24_UnknownStatusBecomesPause ==
    (/\ parsed # NoDecision
     /\ HasBaseFields(response_text)
     /\ Lower(response_text.obj["status"]) \notin valid_statuses)
      => /\ parsed.status = "pause"
         /\ parsed.corrected_from = response_text.obj["status"]

\* C25: parse_response fails with ResponseParseError and returns no
\* decision when the decoded object lacks status or response, when status is
\* buy and one of buy_amount, take_profit_percent, stop_loss_percent is
\* absent, when status is sell and sell_amount is absent, when status is
\* cancel and order_id is absent; a pause needs only the two base fields
C25_MissingFieldsFail ==
    parsed # NoDecision
      => LET r == response_text
         IN /\ ~HasBaseFields(r) => parsed = ParseError
            /\ HasBaseFields(r)
                 => LET status == Lower(r.obj["status"])
                    IN /\ (/\ status = "buy"
                            /\ \E k \in {"buy_amount", "take_profit_percent",
                                          "stop_loss_percent"} : ~Has(r, k))
                             => parsed = ParseError
                       /\ (status = "sell" /\ ~Has(r, "sell_amount"))
                             => parsed = ParseError
                       /\ (status = "cancel" /\ ~Has(r, "order_id"))
                             => parsed = ParseError
                       /\ (/\ r.obj["status"] = "pause"
                            /\ DOMAIN r.obj = {"status", "response"})
                             => /\ parsed.status = "pause"
                                /\ parsed.response = r.obj["response"]

C25_Witness ==
    /\ parsed = ParseError
    /\ HasBaseFields(response_text)
    /\ response_text.obj["status"] = "sell"
    /\ ~Has(response_text, "sell_amount")
    /\ ~Has(response_text, "created_at")

\* C26: the variant is selected by the lower-cased status: an input whose
\* status is pause, buy, sell or cancel up to letter case (such as "BUY") and
\* whose required fields are present and valid is parsed to the variant of
\* the lower-cased status
C26_VariantOfLowerCasedStatus ==
    (/\ parsed # NoDecision
     /\ HasBaseFields(response_text)
     /\ Lower(response_text.obj["status"]) \in valid_statuses
     /\ ValidShape(response_text, Lower(response_text.obj["status"])))
      => parsed.status = Lower(response_text.obj["status"])

\* C27: validate_decision never raises; it is true for a Buy iff
\* buy_amount > 0, 0 < take_profit_percent <= 100, 0 < stop_loss_percent
\* <= 100 and take_profit_percent > stop_loss_percent, for a Sell iff
\* sell_amount > 0, for a Cancel iff order_id is non-empty after trimming,
\* and always for a Pause
C27_ValidatePredicate ==
    is_valid # "not_called"
      => /\ is_valid \in {"true", "false"}
         /\ is_valid = "true" <=> Valid(parsed)

C27_Witness ==
    /\ is_valid = "false"
    /\ parsed.status = "buy"
    /\ parsed.take_profit_percent <= 100
    /\ parsed.take_profit_percent <= parsed.stop_loss_percent

\* C28: parse_and_validate fails with ResponseParseError whenever parsing
\* fails or validate_decision is false, so every decision it returns, and
\* every decision the orchestrator executes, satisfies the validation
\* predicate of its variant
C28_ExecutedDecisionsAreValid ==
    /\ decision # NoDecision => Valid(decision)
    /\ bot_pc = "exec" => decision # NoDecision
    /\ \A i \in Logged(cycle_log, OrderEvents) :
          /\ Before(i, "decision") # {}
          /\ Logged(cycle_log, {"parse_failed"}) = {}

C28_Witness ==
    /\ bot_pc = "exec"
    /\ decision.status = "buy"
    /\ decision.buy_amount = 10

\* C29: for every JSON object that matches one of the four decision shapes
\* with valid field values, parse_and_validate returns a decision of the
\* matching variant whose response and variant fields equal the input
\* values; unknown extra fields do not change the result
C29_RoundTrip ==
    (/\ validated # NoDecision
     /\ HasBaseFields(response_text)
     /\ response_text.obj["status"] \in valid_statuses
     /\ ValidShape([response_text EXCEPT
                      !.obj = [k \in DOMAIN response_text.obj
                                       \ {"note", "created_at"}
                                 |-> response_text.obj[k]]],
                   response_text.obj["status"]))
      => /\ validated.status = response_text.obj["status"]
         /\ validated.response = response_text.obj["response"]
         /\ \A k \in RequiredFields(validated.status) :
               validated[k] = response_text.obj[k]

-----------------------------------------------------------------------------
(* Claims about the trading API client *)

NoSecondAttempt == {"status_error", "transport_error", "bad_body"}

\* C30: the trading API client never retries: each call of an operation
\* issues exactly one HTTP request, and a non-2xx status or a transport
\* failure is propagated to the caller without a second attempt
C30_ClientNeverRetries ==
    [][\A op \in ClientOps, outcome \in HttpOutcomes :
        ClientCall(op, outcome)
          => /\ Len(http_requests') = Len(http_requests) + 1
             /\ http_requests'[Len(http_requests')].endpoint = Endpoint(op)
             /\ (outcome \in NoSecondAttempt /\ op # "test_connection")
                  => client_results'[Len(client_results')].result = "raised"
             /\ Len(http_requests') = Len(client_results')]_vars

C30_Witness ==
    /\ Len(http_requests) = 2
    /\ Len(client_results) = 2
    /\ client_results[1].op = "place_buy_order"
    /\ client_results[1].result = "raised"
    /\ client_results[2].op = "place_buy_order"
    /\ http_requests[1].endpoint = "POST /api/v1/orders/buy"

\* C31: every order-mutating request the client sends (buy, sell, cancel)
\* carries a demo field equal to the demo_mode the client was configured
\* with; none is sent without it or with another value
C31_DemoFlagInMutatingRequests ==
    \A i \in DOMAIN http_requests :
        http_requests[i].endpoint \in
              {"POST /api/v1/orders/buy", "POST /api/v1/orders/sell",
               "POST /api/v1/orders/cancel"}
          => /\ http_requests[i].demo.in = "json"
             /\ http_requests[i].demo.type = "bool"
             /\ http_requests[i].demo.value
                   = (IF demo_mode THEN "true" ELSE "false")

C31_Witness ==
    /\ demo_mode
    /\ Len(http_requests) = 2
    /\ http_requests[1].endpoint = "POST /api/v1/orders/sell"
    /\ http_requests[2].endpoint = "POST /api/v1/orders/cancel"
    /\ http_requests[2].demo.value = "true"

-----------------------------------------------------------------------------
(* Claims about the assistant handler *)

\* the wait has ended by a return
WaitReturned == wait_pc = "returned"

\* the latest poll observed the end of the run
RunFinished == run_status \in {"completed", "failed"}

\* wait_for_completion ends
WaitTerminates == <>(wait_pc \in {"returned", "raised"})

\* C32: wait_for_completion returns true at the first poll that observes
\* completed, false at the first poll that observes failed, and false after
\* at most max_wait_time / 2 polls when neither is observed; a poll that
\* raises counts against the same budget and does not propagate
C32_WaitForCompletion ==
    /\ WaitReturned
          => /\ wait_result = "true" <=> run_status = "completed"
             /\ wait_result = "false" <=> run_status # "completed"
    /\ (wait_pc = "loop" /\ polls > 0) => ~RunFinished
    /\ wait_pc = "raised" => polls = 0 /\ thread_id = NoThread
    /\ ~RunFinished => wait_time = poll_interval * polls
    /\ (WaitReturned /\ ~RunFinished) => 2 * polls <= max_wait_time

====
